---- MODULE Spec2Model ----
(***************************************************************************)
(* Window manager of the simulated desktop (WindowManagerProvider): the    *)
(* registry of WindowState records, the topZIndex counter and the eight    *)
(* controller operations.  Every operation is modelled as the state        *)
(* updaters it hands to React, applied to the committed state.             *)
(***************************************************************************)
EXTENDS Integers, Sequences, FiniteSets, TLC

VARIABLES windows, topZIndex, issued, lastOp, recent

\* the update queues of the two useState hooks between two renders, and what
\* the calls made so far give when each is applied on its own
VARIABLES wQueue, zQueue, seqWindows, seqTopZ, invoked

\* a desktop icon: the two refs of DesktopIcon, the timers set and not yet
\* run or cleared, and how often the icon was clicked and called back
VARIABLES clickCount, clickTimeout, timers, clicks, selects, doubleClicks

\* what the last useWindowManager call gave its caller
VARIABLES hookResult

\* the parking app: its clock, the district and rule it shows, and the time
\* at which the rule shown was computed
VARIABLES currentTime, selectedDistrict, parkingRule, checkedAt

\* the chat route's response stream: where start() is, the events enqueued
\* on the controller, the calls of controller.close(), the messages the
\* query has yielded and whether an event was enqueued on a closed stream
VARIABLES streamPc, enqueued, closeCalls, yielded, enqueuedAfterClose

wmVars == <<windows, topZIndex, issued, lastOp, recent>>

reactVars == <<wQueue, zQueue, seqWindows, seqTopZ, invoked>>

iconVars == <<clickCount, clickTimeout, timers, clicks, selects, doubleClicks>>

parkingVars == <<currentTime, selectedDistrict, parkingRule, checkedAt>>

chatVars == <<streamPc, enqueued, closeCalls, yielded, enqueuedAfterClose>>

appVars == <<hookResult, parkingVars, chatVars>>

vars == <<wmVars, reactVars, iconVars, appVars>>

\* ---------------------------------------------------------------- bounds
\* topZIndex is capped: no focus-affecting call is taken at MaxZ
MaxZ == 103

\* calls made in the runs where calls queue up before a render
MaxCalls == 3

\* clicks made on the icon
MaxClicks == 12

\* messages the agent query yields before it ends or throws
MaxMessages == 3

\* ------------------------------------------------------------- constants
\* useState(100)
BaseZIndex == 100

\* ---------------------------------------------------------------- inputs
Ids == {"a", "b"}

\* what callers hand to openWindow: Omit<WindowState, 'zIndex' | 'isFocused'>
Descriptor(id, k) ==
  IF k = 1
    THEN [id |-> id, title |-> "Notes", x |-> 0, y |-> 0,
          width |-> 400, height |-> 300,
          isMinimized |-> FALSE, isMaximized |-> FALSE]
    ELSE [id |-> id, title |-> "Chat", x |-> 50, y |-> 80,
          width |-> 800, height |-> 600,
          isMinimized |-> TRUE, isMaximized |-> TRUE]

Descriptors == {Descriptor(id, k) : id \in Ids, k \in {1, 2}}

Positions == {<<0, 0>>, <<50, 80>>}

Sizes == {<<400, 300>>, <<800, 600>>}

NoWindow == [id |-> "none"]

\* --------------------------------------------------------------- helpers
\* prev.some(w => w.id === id)
HasId(prev, id) == \E i \in 1..Len(prev) : prev[i].id = id

\* prev.find(w => w.id === id): the first match
Find(prev, id) ==
  prev[CHOOSE i \in 1..Len(prev) :
         /\ prev[i].id = id
         /\ \A j \in 1..(i - 1) : prev[j].id # id]

\* the counter handed out again instead of its successor
NewZSame(currentZ) == currentZ

\* const newZ = currentZ + 1
NewZ(currentZ) == currentZ + 1

\* a record passed through with its focus flag as it was
UnfocusKept(w) == w

\* { ...w, isFocused: false }
Unfocus(w) == [w EXCEPT !.isFocused = FALSE]

\* a record focused with the counter's value from before the increment
RaisePreIncrement(w, newZ) == [w EXCEPT !.isFocused = TRUE, !.zIndex = newZ - 1]

\* { ...w, isFocused: true, zIndex: newZ }
Raise(w, newZ) == [w EXCEPT !.isFocused = TRUE, !.zIndex = newZ]

\* a record un-minimized and focused without a new zIndex
UnminimizeNoZ(w, newZ) == [w EXCEPT !.isMinimized = FALSE, !.isFocused = TRUE]

\* { ...w, isMinimized: false, isFocused: true, zIndex: newZ }
Unminimize(w, newZ) ==
  [w EXCEPT !.isMinimized = FALSE, !.isFocused = TRUE, !.zIndex = newZ]

\* a new record given the successor of the initial counter value, as a
\* callback that closed over topZIndex would compute it
NewRecordStale(window, newZ) ==
  [id |-> window.id, title |-> window.title,
   x |-> window.x, y |-> window.y,
   width |-> window.width, height |-> window.height,
   isMinimized |-> window.isMinimized,
   isMaximized |-> window.isMaximized,
   zIndex |-> 101, isFocused |-> TRUE]

\* { ...window, zIndex: newZ, isFocused: true }
NewRecord(window, newZ) ==
  [id |-> window.id, title |-> window.title,
   x |-> window.x, y |-> window.y,
   width |-> window.width, height |-> window.height,
   isMinimized |-> window.isMinimized,
   isMaximized |-> window.isMaximized,
   zIndex |-> newZ, isFocused |-> TRUE]

\* openWindow's updater without the lookup of an existing record
OpenAlwaysAppends(prev, window, newZ) ==
  Append([i \in 1..Len(prev) |-> Unfocus(prev[i])], NewRecord(window, newZ))

\* openWindow's updater spreading the descriptor over an existing record
OpenOverwrites(prev, window, newZ) ==
  IF HasId(prev, window.id)
    THEN [i \in 1..Len(prev) |->
            IF prev[i].id = window.id
              THEN NewRecord(window, newZ)
              ELSE Unfocus(prev[i])]
    ELSE OpenAlwaysAppends(prev, window, newZ)

\* openWindow's updater without the branch for a minimized record
OpenNeverUnminimizes(prev, window, newZ) ==
  IF HasId(prev, window.id)
    THEN [i \in 1..Len(prev) |->
            IF prev[i].id = window.id
              THEN Raise(prev[i], newZ)
              ELSE Unfocus(prev[i])]
    ELSE OpenAlwaysAppends(prev, window, newZ)

\* the function passed to setWindows by openWindow
OpenUpdater(prev, window, newZ) ==
  IF HasId(prev, window.id)
    THEN IF Find(prev, window.id).isMinimized
           THEN [i \in 1..Len(prev) |->
                   IF prev[i].id = window.id
                     THEN Unminimize(prev[i], newZ)
                     ELSE Unfocus(prev[i])]
           ELSE [i \in 1..Len(prev) |->
                   IF prev[i].id = window.id
                     THEN Raise(prev[i], newZ)
                     ELSE Unfocus(prev[i])]
    ELSE Append([i \in 1..Len(prev) |-> Unfocus(prev[i])],
                NewRecord(window, newZ))

\* closeWindow's updater handing the focus of the closed record to the last
\* record left
CloseRefocuses(prev, id) ==
  LET rest == SelectSeq(prev, LAMBDA w : w.id # id)
  IN IF HasId(prev, id) /\ Find(prev, id).isFocused /\ Len(rest) > 0
       THEN [i \in 1..Len(rest) |->
               IF i = Len(rest)
                 THEN [rest[i] EXCEPT !.isFocused = TRUE]
                 ELSE rest[i]]
       ELSE rest

\* prev.filter(w => w.id !== id)
CloseUpdater(prev, id) == SelectSeq(prev, LAMBDA w : w.id # id)

\* minimizeWindow's updater written in the pattern of focusWindow's
MinimizeClearsOthers(prev, id) ==
  [i \in 1..Len(prev) |->
     IF prev[i].id = id
       THEN [prev[i] EXCEPT !.isMinimized = TRUE, !.isFocused = FALSE]
       ELSE Unfocus(prev[i])]

\* minimizeWindow's updater leaving the focus flag as it is
MinimizeKeepsFocus(prev, id) ==
  [i \in 1..Len(prev) |->
     IF prev[i].id = id
       THEN [prev[i] EXCEPT !.isMinimized = TRUE]
       ELSE prev[i]]

MinimizeUpdater(prev, id) ==
  [i \in 1..Len(prev) |->
     IF prev[i].id = id
       THEN [prev[i] EXCEPT !.isMinimized = TRUE, !.isFocused = FALSE]
       ELSE prev[i]]

\* maximizeWindow's updater setting the flag instead of toggling it
MaximizeSets(prev, id) ==
  [i \in 1..Len(prev) |->
     IF prev[i].id = id
       THEN [prev[i] EXCEPT !.isMaximized = TRUE]
       ELSE prev[i]]

MaximizeUpdater(prev, id) ==
  [i \in 1..Len(prev) |->
     IF prev[i].id = id
       THEN [prev[i] EXCEPT !.isMaximized = ~prev[i].isMaximized]
       ELSE prev[i]]

\* restoreWindow's updater acting only on a record that is minimized
RestoreOnlyMinimized(prev, id, newZ) ==
  IF HasId(prev, id) /\ ~Find(prev, id).isMinimized
    THEN prev
    ELSE [i \in 1..Len(prev) |->
            IF prev[i].id = id
              THEN Unminimize(prev[i], newZ)
              ELSE Unfocus(prev[i])]

RestoreUpdater(prev, id, newZ) ==
  [i \in 1..Len(prev) |->
     IF prev[i].id = id
       THEN Unminimize(prev[i], newZ)
       ELSE Unfocus(prev[i])]

\* focusWindow's updater written as restoreWindow's
FocusUnminimizes(prev, id, newZ) ==
  [i \in 1..Len(prev) |->
     IF prev[i].id = id
       THEN Unminimize(prev[i], newZ)
       ELSE Unfocus(prev[i])]

\* focusWindow's updater leaving the other records as they are
FocusKeepsOthers(prev, id, newZ) ==
  [i \in 1..Len(prev) |->
     IF prev[i].id = id THEN Raise(prev[i], newZ) ELSE prev[i]]

FocusUpdater(prev, id, newZ) ==
  [i \in 1..Len(prev) |->
     IF prev[i].id = id
       THEN Raise(prev[i], newZ)
       ELSE Unfocus(prev[i])]

PositionUpdater(prev, id, x, y) ==
  [i \in 1..Len(prev) |->
     IF prev[i].id = id
       THEN [prev[i] EXCEPT !.x = x, !.y = y]
       ELSE prev[i]]

\* updateWindowSize's updater writing the position fields
SizeMoves(prev, id, width, height) ==
  [i \in 1..Len(prev) |->
     IF prev[i].id = id
       THEN [prev[i] EXCEPT !.x = width, !.y = height]
       ELSE prev[i]]

SizeUpdater(prev, id, width, height) ==
  [i \in 1..Len(prev) |->
     IF prev[i].id = id
       THEN [prev[i] EXCEPT !.width = width, !.height = height]
       ELSE prev[i]]

\* what the call just made was, and what it found in the registry
Call(op, id, window) ==
  [op |-> op, id |-> id, window |-> window,
   present |-> HasId(windows, id),
   wasMinimized |-> HasId(windows, id) /\ Find(windows, id).isMinimized,
   focusedBefore |-> {windows[i].id : i \in {j \in 1..Len(windows) : windows[j].isFocused}}]

\* the ids of the records in the registry, in the order in which openWindow,
\* restoreWindow and focusWindow last targeted them (latest last)
Without(seq, id) == SelectSeq(seq, LAMBDA e : e # id)

Touched(seq, id) == Append(Without(seq, id), id)

\* useRef<NodeJS.Timeout | null>(null)
NoTimer == 0

\* clearTimeout left out of the double-click branch
ClearTimeoutSkipped(pending, timeout) == pending

\* if (clickTimeoutRef.current) clearTimeout(clickTimeoutRef.current)
ClearTimeout(pending, timeout) ==
  IF timeout # NoTimer THEN pending \ {timeout} ELSE pending

\* createContext<WindowManagerContextType | null>(null)
NoContext == [provided |-> FALSE]

NotCalled == [called |-> FALSE]

NoValue == [controller |-> FALSE]

\* the hook handing on whatever useContext gave it
UseContextOnly(context) == [threw |-> FALSE, value |-> context]

\* useWindowManager, given what useContext(WindowManagerContext) returns
UseWindowManager(context) ==
  IF context = NoContext
    THEN [threw |-> TRUE, value |-> NoValue]
    ELSE [threw |-> FALSE, value |-> context]

\* useState<ParkingRule | null>(null)
NoRule == [type |-> "null"]

\* ------------------------------------------------------------ operations
Init ==
  /\ windows = <<>>
  /\ topZIndex = BaseZIndex
  /\ issued = <<>>
  /\ lastOp = [op |-> "none", id |-> "none", window |-> NoWindow,
               present |-> FALSE, wasMinimized |-> FALSE,
               focusedBefore |-> {}]
  /\ recent = <<>>
  /\ wQueue = <<>>
  /\ zQueue = <<>>
  /\ seqWindows = <<>>
  /\ seqTopZ = BaseZIndex
  /\ invoked = 0
  /\ clickCount = 0
  /\ clickTimeout = NoTimer
  /\ timers = {}
  /\ clicks = 0
  /\ selects = 0
  /\ doubleClicks = 0
  /\ hookResult = NotCalled
  /\ currentTime = [day |-> 1, hour |-> 0]
  /\ selectedDistrict = ""
  /\ parkingRule = NoRule
  /\ checkedAt = [day |-> 1, hour |-> 0]
  /\ streamPc = "iterating"
  /\ enqueued = <<>>
  /\ closeCalls = 0
  /\ yielded = <<>>
  /\ enqueuedAfterClose = FALSE

openWindow(window) ==
  /\ topZIndex < MaxZ
  /\ LET newZ == NewZ(topZIndex)
     IN /\ windows' = OpenUpdater(windows, window, newZ)
        /\ topZIndex' = newZ
        /\ issued' = Append(issued, newZ)
  /\ lastOp' = Call("open", window.id, window)
  /\ recent' = Touched(recent, window.id)
  /\ UNCHANGED <<reactVars, iconVars, appVars>>

\* the greatest zIndex among the records of ws, the initial counter if none
TopOf(ws) ==
  IF ws = <<>>
    THEN BaseZIndex
    ELSE CHOOSE z \in {ws[i].zIndex : i \in 1..Len(ws)} :
           \A i \in 1..Len(ws) : ws[i].zIndex <= z

\* closeWindow taking the counter back to the top of the records left
closeWindowLowers(id) ==
  /\ windows' = CloseUpdater(windows, id)
  /\ topZIndex' = TopOf(CloseUpdater(windows, id))
  /\ lastOp' = Call("close", id, NoWindow)
  /\ recent' = Without(recent, id)
  /\ UNCHANGED issued
  /\ UNCHANGED <<reactVars, iconVars, appVars>>

closeWindow(id) ==
  /\ windows' = CloseUpdater(windows, id)
  /\ lastOp' = Call("close", id, NoWindow)
  /\ recent' = Without(recent, id)
  /\ UNCHANGED <<topZIndex, issued>>
  /\ UNCHANGED <<reactVars, iconVars, appVars>>

minimizeWindow(id) ==
  /\ windows' = MinimizeUpdater(windows, id)
  /\ lastOp' = Call("minimize", id, NoWindow)
  /\ UNCHANGED <<topZIndex, issued, recent>>
  /\ UNCHANGED <<reactVars, iconVars, appVars>>

maximizeWindow(id) ==
  /\ windows' = MaximizeUpdater(windows, id)
  /\ lastOp' = Call("maximize", id, NoWindow)
  /\ UNCHANGED <<topZIndex, issued, recent>>
  /\ UNCHANGED <<reactVars, iconVars, appVars>>

restoreWindow(id) ==
  /\ topZIndex < MaxZ
  /\ LET newZ == NewZ(topZIndex)
     IN /\ windows' = RestoreUpdater(windows, id, newZ)
        /\ topZIndex' = newZ
        /\ issued' = Append(issued, newZ)
  /\ lastOp' = Call("restore", id, NoWindow)
  /\ recent' = IF HasId(windows, id) THEN Touched(recent, id) ELSE recent
  /\ UNCHANGED <<reactVars, iconVars, appVars>>

focusWindow(id) ==
  /\ topZIndex < MaxZ
  /\ LET newZ == NewZ(topZIndex)
     IN /\ windows' = FocusUpdater(windows, id, newZ)
        /\ topZIndex' = newZ
        /\ issued' = Append(issued, newZ)
  /\ lastOp' = Call("focus", id, NoWindow)
  /\ recent' = IF HasId(windows, id) THEN Touched(recent, id) ELSE recent
  /\ UNCHANGED <<reactVars, iconVars, appVars>>

updateWindowPosition(id, x, y) ==
  /\ windows' = PositionUpdater(windows, id, x, y)
  /\ lastOp' = Call("position", id, [id |-> id, x |-> x, y |-> y])
  /\ UNCHANGED <<topZIndex, issued, recent>>
  /\ UNCHANGED <<reactVars, iconVars, appVars>>

updateWindowSize(id, width, height) ==
  /\ windows' = SizeUpdater(windows, id, width, height)
  /\ lastOp' = Call("size", id, [id |-> id, width |-> width, height |-> height])
  /\ UNCHANGED <<topZIndex, issued, recent>>
  /\ UNCHANGED <<reactVars, iconVars, appVars>>

Next ==
  \/ \E window \in Descriptors : openWindow(window)
  \/ \E id \in Ids : closeWindow(id)
  \/ \E id \in Ids : minimizeWindow(id)
  \/ \E id \in Ids : maximizeWindow(id)
  \/ \E id \in Ids : restoreWindow(id)
  \/ \E id \in Ids : focusWindow(id)
  \/ \E id \in Ids, p \in Positions : updateWindowPosition(id, p[1], p[2])
  \/ \E id \in Ids, s \in Sizes : updateWindowSize(id, s[1], s[2])

Spec == Init /\ [][Next]_vars

\* ------------------------------------------- several calls before a render
\* The handlers only enqueue: setWindows(updater) appends to the queue of the
\* windows hook, setTopZIndex(updater) to the queue of the topZIndex hook.
\* React runs a queued updater when it renders, except that it may compute
\* the first update of an idle component at once; the setWindows call
\* inside the topZIndex updater is made when that updater runs.

\* the function a handler passes to setWindows, by the handler's name
ApplyUpdate(prev, u) ==
  CASE u.op = "open" -> OpenUpdater(prev, u.window, u.newZ)
    [] u.op = "close" -> CloseUpdater(prev, u.id)
    [] u.op = "minimize" -> MinimizeUpdater(prev, u.id)
    [] u.op = "maximize" -> MaximizeUpdater(prev, u.id)
    [] u.op = "restore" -> RestoreUpdater(prev, u.id, u.newZ)
    [] u.op = "focus" -> FocusUpdater(prev, u.id, u.newZ)
    [] u.op = "position" -> PositionUpdater(prev, u.id, u.window.x, u.window.y)
    [] u.op = "size" ->
         SizeUpdater(prev, u.id, u.window.width, u.window.height)

\* the windows hook working through its queue in order
RECURSIVE ApplyAll(_, _)
ApplyAll(prev, queue) ==
  IF queue = <<>>
    THEN prev
    ELSE ApplyAll(ApplyUpdate(prev, Head(queue)), Tail(queue))

\* the topZIndex hook working through its queue in order: an update computed
\* at call time yields its stored state, any other runs its updater, which
\* calls setWindows during the render
RECURSIVE RunZQueue(_, _, _)
RunZQueue(currentZ, queue, nested) ==
  IF queue = <<>>
    THEN [z |-> currentZ, nested |-> nested]
    ELSE LET u == Head(queue)
         IN IF u.eager
              THEN RunZQueue(u.newZ, Tail(queue), nested)
              ELSE RunZQueue(NewZ(currentZ), Tail(queue),
                             Append(nested, [u EXCEPT !.newZ = NewZ(currentZ)]))

Update(op, id, window, newZ, eager) ==
  [op |-> op, id |-> id, window |-> window, newZ |-> newZ, eager |-> eager]

\* no update is pending on the component
Idle == wQueue = <<>> /\ zQueue = <<>>

\* openWindow, restoreWindow or focusWindow called: setTopZIndex(updater)
EnqueueZ(op, id, window) ==
  /\ invoked < MaxCalls
  /\ seqTopZ < MaxZ
  /\ \/ /\ Idle
        /\ wQueue' = Append(wQueue, Update(op, id, window, NewZ(topZIndex), TRUE))
        /\ zQueue' = Append(zQueue, Update(op, id, window, NewZ(topZIndex), TRUE))
     \/ /\ zQueue' = Append(zQueue, Update(op, id, window, 0, FALSE))
        /\ UNCHANGED wQueue
  /\ seqWindows' = ApplyUpdate(seqWindows, Update(op, id, window, NewZ(seqTopZ), TRUE))
  /\ seqTopZ' = NewZ(seqTopZ)
  /\ invoked' = invoked + 1
  /\ UNCHANGED <<wmVars, iconVars, appVars>>

\* one of the other five handlers called: setWindows(updater)
EnqueueW(op, id, window) ==
  /\ invoked < MaxCalls
  /\ wQueue' = Append(wQueue, Update(op, id, window, 0, FALSE))
  /\ seqWindows' = ApplyUpdate(seqWindows, Update(op, id, window, 0, FALSE))
  /\ invoked' = invoked + 1
  /\ UNCHANGED <<zQueue, seqTopZ>>
  /\ UNCHANGED <<wmVars, iconVars, appVars>>

openWindowQueued(window) == EnqueueZ("open", window.id, window)

restoreWindowQueued(id) == EnqueueZ("restore", id, NoWindow)

focusWindowQueued(id) == EnqueueZ("focus", id, NoWindow)

closeWindowQueued(id) == EnqueueW("close", id, NoWindow)

minimizeWindowQueued(id) == EnqueueW("minimize", id, NoWindow)

maximizeWindowQueued(id) == EnqueueW("maximize", id, NoWindow)

updateWindowPositionQueued(id, x, y) ==
  EnqueueW("position", id, [id |-> id, x |-> x, y |-> y])

updateWindowSizeQueued(id, width, height) ==
  EnqueueW("size", id, [id |-> id, width |-> width, height |-> height])

\* the provider renders: the windows hook (declared first), then the
\* topZIndex hook, then the render again for the setWindows calls made while
\* rendering; the result is committed
Render ==
  /\ ~Idle
  /\ LET first == ApplyAll(windows, wQueue)
         z == RunZQueue(topZIndex, zQueue, <<>>)
     IN /\ windows' = ApplyAll(first, z.nested)
        /\ topZIndex' = z.z
  /\ wQueue' = <<>>
  /\ zQueue' = <<>>
  /\ UNCHANGED <<issued, lastOp, recent, seqWindows, seqTopZ, invoked>>
  /\ UNCHANGED <<iconVars, appVars>>

QueuedNext ==
  \/ \E window \in Descriptors : openWindowQueued(window)
  \/ \E id \in Ids : closeWindowQueued(id)
  \/ \E id \in Ids : minimizeWindowQueued(id)
  \/ \E id \in Ids : maximizeWindowQueued(id)
  \/ \E id \in Ids : restoreWindowQueued(id)
  \/ \E id \in Ids : focusWindowQueued(id)
  \/ \E id \in Ids, p \in Positions : updateWindowPositionQueued(id, p[1], p[2])
  \/ \E id \in Ids, s \in Sizes : updateWindowSizeQueued(id, s[1], s[2])
  \/ Render

QueuedSpec == Init /\ [][QueuedNext]_vars

\* ------------------------------------------------------ useWindowManager
\* the value WindowManagerProvider gives to WindowManagerContext.Provider
ContextValue ==
  [provided |-> TRUE, windows |-> windows, topZIndex |-> topZIndex]

\* a component calls the hook, inside a provider or not
useWindowManager(inside) ==
  /\ LET context == IF inside THEN ContextValue ELSE NoContext
     IN hookResult' = [called |-> TRUE, context |-> context,
                       result |-> UseWindowManager(context)]
  /\ UNCHANGED <<parkingVars, chatVars>>
  /\ UNCHANGED <<wmVars, reactVars, iconVars>>

HookNext ==
  \/ \E window \in Descriptors : openWindow(window)
  \/ \E inside \in BOOLEAN : useWindowManager(inside)

HookSpec == Init /\ [][HookNext]_vars

\* ------------------------------------------------------------- parking app
\* strings the code searches and splits are sequences of characters
WeekdayNames ==
  <<<<"S", "u", "n", "d", "a", "y">>,
    <<"M", "o", "n", "d", "a", "y">>,
    <<"T", "u", "e", "s", "d", "a", "y">>,
    <<"W", "e", "d", "n", "e", "s", "d", "a", "y">>,
    <<"T", "h", "u", "r", "s", "d", "a", "y">>,
    <<"F", "r", "i", "d", "a", "y">>,
    <<"S", "a", "t", "u", "r", "d", "a", "y">>>>

\* currentTime.toLocaleDateString('en-US', { weekday: 'long' }), by getDay()
WeekdayName(day) == WeekdayNames[day + 1]

\* STREET_CLEANING_SCHEDULES
STREET_CLEANING_SCHEDULES ==
  "Mission" :> <<[day |-> <<"M", "o", "n", "d", "a", "y">>,
        time |-> <<"8", "a", "m", "-", "1", "0", "a", "m">>,
        side |-> "West"],
       [day |-> <<"T", "h", "u", "r", "s", "d", "a", "y">>,
        time |-> <<"8", "a", "m", "-", "1", "0", "a", "m">>,
        side |-> "East"]>>
  @@ "SoMa" :> <<[day |-> <<"T", "u", "e", "s", "d", "a", "y">>,
        time |-> <<"1", "2", "p", "m", "-", "2", "p", "m">>,
        side |-> "North"],
       [day |-> <<"F", "r", "i", "d", "a", "y">>,
        time |-> <<"1", "2", "p", "m", "-", "2", "p", "m">>,
        side |-> "South"]>>
  @@ "Financial District" :> <<[day |-> <<"M", "o", "n", "d", "a", "y", "/", "W", "e", "d", "n", "e", "s", "d", "a", "y">>,
        time |-> <<"9", "a", "m", "-", "1", "1", "a", "m">>,
        side |-> "All"]>>
  @@ "Richmond" :> <<[day |-> <<"W", "e", "d", "n", "e", "s", "d", "a", "y">>,
        time |-> <<"8", "a", "m", "-", "1", "0", "a", "m">>,
        side |-> "North"],
       [day |-> <<"T", "h", "u", "r", "s", "d", "a", "y">>,
        time |-> <<"8", "a", "m", "-", "1", "0", "a", "m">>,
        side |-> "South"]>>
  @@ "Sunset" :> <<[day |-> <<"T", "u", "e", "s", "d", "a", "y">>,
        time |-> <<"8", "a", "m", "-", "1", "0", "a", "m">>,
        side |-> "West"],
       [day |-> <<"F", "r", "i", "d", "a", "y">>,
        time |-> <<"8", "a", "m", "-", "1", "0", "a", "m">>,
        side |-> "East"]>>
  @@ "Marina" :> <<[day |-> <<"M", "o", "n", "d", "a", "y">>,
        time |-> <<"9", "a", "m", "-", "1", "1", "a", "m">>,
        side |-> "All"]>>
  @@ "Haight-Ashbury" :> <<[day |-> <<"T", "h", "u", "r", "s", "d", "a", "y">>,
        time |-> <<"8", "a", "m", "-", "1", "0", "a", "m">>,
        side |-> "Both"]>>
  @@ "Castro" :> <<[day |-> <<"W", "e", "d", "n", "e", "s", "d", "a", "y">>,
        time |-> <<"1", "2", "p", "m", "-", "2", "p", "m">>,
        side |-> "All"]>>

Districts == DOMAIN STREET_CLEANING_SCHEDULES

\* a district the table has no entry for
OtherDistricts == {"Tenderloin"}

\* VIOLATION_COSTS['Street Cleaning']
StreetCleaningCost == 76

\* parseInt of a string without digits
NaN == -1

\* s.includes(t)
Includes(s, t) ==
  \E i \in 0..(Len(s) - Len(t)) : SubSeq(s, i + 1, i + Len(t)) = t

\* s.split(sep), sep one character
RECURSIVE Split(_, _)
Split(s, sep) ==
  IF \E i \in 1..Len(s) : s[i] = sep
    THEN LET i == CHOOSE k \in 1..Len(s) :
                    s[k] = sep /\ \A j \in 1..(k - 1) : s[j] # sep
         IN <<SubSeq(s, 1, i - 1)>> \o Split(SubSeq(s, i + 1, Len(s)), sep)
    ELSE <<s>>

DigitValue(c) ==
  CASE c = "0" -> 0 [] c = "1" -> 1 [] c = "2" -> 2 [] c = "3" -> 3
    [] c = "4" -> 4 [] c = "5" -> 5 [] c = "6" -> 6 [] c = "7" -> 7
    [] c = "8" -> 8 [] c = "9" -> 9

IsDigit(c) == c \in {"0", "1", "2", "3", "4", "5", "6", "7", "8", "9"}

\* s.replace(/\D/g, '')
StripNonDigits(s) == SelectSeq(s, IsDigit)

\* parseInt of a string of digits
RECURSIVE ParseInt(_)
ParseInt(s) ==
  IF s = <<>>
    THEN NaN
    ELSE IF Len(s) = 1
      THEN DigitValue(s[1])
      ELSE 10 * ParseInt(SubSeq(s, 1, Len(s) - 1)) + DigitValue(s[Len(s)])

\* the predicate of schedule.find: is entry s being cleaned at this time
CleaningNow(s, time) ==
  IF ~Includes(s.day, WeekdayName(time.day))
    THEN FALSE
    ELSE LET parts == Split(s.time, "-")
             startHour == ParseInt(StripNonDigits(parts[1]))
             endHour == ParseInt(StripNonDigits(parts[2]))
         IN /\ startHour # NaN /\ endHour # NaN
            /\ time.hour >= startHour /\ time.hour < endHour

\* STREET_CLEANING_SCHEDULES[district] || []
ScheduleOf(district) ==
  IF district \in DOMAIN STREET_CLEANING_SCHEDULES
    THEN STREET_CLEANING_SCHEDULES[district]
    ELSE <<>>

\* the rule checkParkingRules hands to setParkingRule
RuleFor(district, time) ==
  LET schedule == ScheduleOf(district)
      active == {i \in 1..Len(schedule) : CleaningNow(schedule[i], time)}
  IN IF active # {}
       THEN LET activeCleaningSchedule ==
                  schedule[CHOOSE i \in active : \A j \in active : i <= j]
                endTime == Split(activeCleaningSchedule.time, "-")[2]
            IN [type |-> "forbidden",
                reason |-> activeCleaningSchedule.side,
                cost |-> StreetCleaningCost,
                timeUntilChange |-> endTime,
                nextChange |-> endTime]
       ELSE [type |-> "allowed",
             reason |-> "Parking currently allowed",
             nextChange |-> IF schedule # <<>>
                              THEN schedule[1].day \o <<" ">> \o schedule[1].time
                              ELSE <<>>]

checkParkingRules(district) ==
  /\ selectedDistrict' = district
  /\ parkingRule' = RuleFor(district, currentTime)
  /\ checkedAt' = currentTime
  /\ UNCHANGED currentTime
  /\ UNCHANGED <<hookResult, chatVars>>
  /\ UNCHANGED <<wmVars, reactVars, iconVars>>

\* the interval callback sets currentTime to the present time; the clock is
\* followed hour by hour
updateCurrentTime ==
  /\ currentTime' =
       IF currentTime.hour = 23
         THEN [day |-> (currentTime.day + 1) % 7, hour |-> 0]
         ELSE [currentTime EXCEPT !.hour = currentTime.hour + 1]
  /\ UNCHANGED <<selectedDistrict, parkingRule, checkedAt>>
  /\ UNCHANGED <<hookResult, chatVars>>
  /\ UNCHANGED <<wmVars, reactVars, iconVars>>

ParkingNext ==
  \/ \E district \in Districts \cup OtherDistricts : checkParkingRules(district)
  \/ updateCurrentTime

ParkingSpec == Init /\ [][ParkingNext]_vars

\* ------------------------------------------------------------ chat stream
\* the consumer reads the response to its end: enqueue and close succeed
ToolNames == {"WebSearch"}

BlockTypes == {"text", "tool_use"}

Block(type) ==
  IF type = "tool_use"
    THEN [type |-> type, name |-> CHOOSE name \in ToolNames : TRUE]
    ELSE [type |-> type]

\* content arrays of assistant messages
Contents ==
  {<<>>}
    \cup {<<Block(t)>> : t \in BlockTypes}
    \cup {<<Block(t), Block(u)>> : t \in BlockTypes, u \in BlockTypes}

\* messages the for-await loop can receive
Messages ==
  {[type |-> "stream_event",
    event |-> [type |-> "content_block_delta", delta |-> [type |-> "text_delta"]]],
   [type |-> "stream_event",
    event |-> [type |-> "content_block_delta", delta |-> [type |-> "input_json_delta"]]],
   [type |-> "stream_event",
    event |-> [type |-> "message_stop", delta |-> [type |-> "none"]]]}
    \cup {[type |-> "assistant", isArray |-> TRUE, content |-> c] : c \in Contents}
    \cup {[type |-> "assistant", isArray |-> FALSE, content |-> <<>>]}
    \cup {[type |-> "tool_progress", tool_name |-> n] : n \in ToolNames}
    \cup {[type |-> "result", subtype |-> st] :
            st \in {"success", "error_max_turns", "error_during_execution"}}
    \cup {[type |-> "system"]}

\* 'data: [DONE]\n\n'
DONE == [type |-> "[DONE]"]

TextDeltaEvents(message) ==
  IF /\ message.type = "stream_event"
     /\ message.event.type = "content_block_delta"
     /\ message.event.delta.type = "text_delta"
    THEN <<[type |-> "text_delta"]>>
    ELSE <<>>

RECURSIVE ToolStarts(_)
ToolStarts(content) ==
  IF content = <<>>
    THEN <<>>
    ELSE (IF Head(content).type = "tool_use"
            THEN <<[type |-> "tool_start", tool |-> Head(content).name]>>
            ELSE <<>>) \o ToolStarts(Tail(content))

ToolStartEvents(message) ==
  IF message.type = "assistant" /\ message.isArray
    THEN ToolStarts(message.content)
    ELSE <<>>

ToolProgressEvents(message) ==
  IF message.type = "tool_progress"
    THEN <<[type |-> "tool_progress", tool |-> message.tool_name]>>
    ELSE <<>>

DoneEvents(message) ==
  IF message.type = "result" /\ message.subtype = "success"
    THEN <<[type |-> "done"]>>
    ELSE <<>>

ErrorEvents(message) ==
  IF message.type = "result" /\ message.subtype # "success"
    THEN <<[type |-> "error", message |-> "Query did not complete successfully"]>>
    ELSE <<>>

\* controller.enqueue of each event in turn
Enqueue(events) ==
  /\ enqueued' = enqueued \o events
  /\ enqueuedAfterClose' = (enqueuedAfterClose \/ (events # <<>> /\ closeCalls > 0))

\* one turn of the for-await loop
onMessage(message) ==
  /\ streamPc = "iterating"
  /\ Len(yielded) < MaxMessages
  /\ yielded' = Append(yielded, message)
  /\ Enqueue(TextDeltaEvents(message) \o ToolStartEvents(message)
               \o ToolProgressEvents(message) \o DoneEvents(message)
               \o ErrorEvents(message))
  /\ UNCHANGED <<streamPc, closeCalls>>
  /\ UNCHANGED <<hookResult, parkingVars>>
  /\ UNCHANGED <<wmVars, reactVars, iconVars>>

\* the iteration ends: the statements after the loop
queryEnds ==
  /\ streamPc = "iterating"
  /\ Enqueue(<<DONE>>)
  /\ closeCalls' = closeCalls + 1
  /\ streamPc' = "ended"
  /\ UNCHANGED yielded
  /\ UNCHANGED <<hookResult, parkingVars>>
  /\ UNCHANGED <<wmVars, reactVars, iconVars>>

queryThrowsNoClose ==
  /\ streamPc = "iterating"
  /\ Enqueue(<<[type |-> "error", message |-> "Stream error occurred"]>>)
  /\ streamPc' = "threw"
  /\ UNCHANGED <<yielded, closeCalls>>
  /\ UNCHANGED <<hookResult, parkingVars>>
  /\ UNCHANGED <<wmVars, reactVars, iconVars>>

\* the query throws: the catch block
queryThrows ==
  /\ streamPc = "iterating"
  /\ Enqueue(<<[type |-> "error", message |-> "Stream error occurred"]>>)
  /\ closeCalls' = closeCalls + 1
  /\ streamPc' = "threw"
  /\ UNCHANGED yielded
  /\ UNCHANGED <<hookResult, parkingVars>>
  /\ UNCHANGED <<wmVars, reactVars, iconVars>>

ChatNext ==
  \/ \E message \in Messages : onMessage(message)
  \/ queryEnds
  \/ queryThrows

ChatSpec == Init /\ [][ChatNext]_vars

\* ------------------------------------------------------------ desktop icon
\* handleClick without the reset of the counter on the second click
handleClickKeepsCount ==
  /\ clicks < MaxClicks
  /\ clicks' = clicks + 1
  /\ IF clickCount + 1 = 1
       THEN /\ clickCount' = 1
            /\ clickTimeout' = clicks + 1
            /\ timers' = timers \cup {clicks + 1}
            /\ UNCHANGED <<selects, doubleClicks>>
       ELSE IF clickCount + 1 = 2
         THEN /\ timers' = ClearTimeout(timers, clickTimeout)
              /\ clickCount' = 2
              /\ selects' = selects + 1
              /\ doubleClicks' = doubleClicks + 1
              /\ UNCHANGED clickTimeout
         ELSE /\ clickCount' = clickCount + 1
              /\ UNCHANGED <<clickTimeout, timers, selects, doubleClicks>>
  /\ UNCHANGED <<wmVars, reactVars, appVars>>

\* a click on the icon; the timer set by a first click is named by the
\* number of the click that set it
handleClick ==
  /\ clicks < MaxClicks
  /\ clicks' = clicks + 1
  /\ IF clickCount + 1 = 1
       THEN /\ clickCount' = 1
            /\ clickTimeout' = clicks + 1
            /\ timers' = timers \cup {clicks + 1}
            /\ UNCHANGED <<selects, doubleClicks>>
       ELSE IF clickCount + 1 = 2
         THEN /\ timers' = ClearTimeout(timers, clickTimeout)
              /\ clickCount' = 0
              /\ selects' = selects + 1
              /\ doubleClicks' = doubleClicks + 1
              /\ UNCHANGED clickTimeout
         ELSE /\ clickCount' = clickCount + 1
              /\ UNCHANGED <<clickTimeout, timers, selects, doubleClicks>>
  /\ UNCHANGED <<wmVars, reactVars, appVars>>

\* the timeout callback without the reset of the counter
clickTimeoutKeepsCount(timeout) ==
  /\ timeout \in timers
  /\ timers' = timers \ {timeout}
  /\ selects' = IF clickCount = 1 THEN selects + 1 ELSE selects
  /\ UNCHANGED <<clickCount, clickTimeout, clicks, doubleClicks>>
  /\ UNCHANGED <<wmVars, reactVars, appVars>>

\* the callback given to setTimeout runs, 250 ms after the click that set it
clickTimeoutFires(timeout) ==
  /\ timeout \in timers
  /\ timers' = timers \ {timeout}
  /\ selects' = IF clickCount = 1 THEN selects + 1 ELSE selects
  /\ clickCount' = 0
  /\ UNCHANGED <<clickTimeout, clicks, doubleClicks>>
  /\ UNCHANGED <<wmVars, reactVars, appVars>>

IconNext ==
  \/ handleClick
  \/ \E timeout \in 1..MaxClicks : clickTimeoutFires(timeout)

IconSpec == Init /\ [][IconNext]_vars

\* ------------------------------------------------------------ vocabulary
Focused(ws) == {i \in 1..Len(ws) : ws[i].isFocused}

WithId(ws, id) == {i \in 1..Len(ws) : ws[i].id = id}

FocusAffecting == {"open", "restore", "focus"}

\* the call just made assigned focus to a record
Targeted ==
  \/ lastOp.op = "open"
  \/ lastOp.op \in {"restore", "focus"} /\ lastOp.present

TypeOK ==
  /\ topZIndex \in BaseZIndex..MaxZ
  /\ Len(windows) <= Cardinality(Ids)

Others(ws, id) == {i \in 1..Len(ws) : ws[i].id # id}

\* ------------------------------------------------------------------- C1
\* C1: after any sequence of controller calls, at most one record has
\* isFocused = true.
SingleFocus == Cardinality(Focused(windows)) <= 1

\* two records in the registry, focus just moved from one to the other
SingleFocusWitness ==
  /\ Len(windows) = 2
  /\ lastOp.op = "focus" /\ lastOp.present
  /\ lastOp.focusedBefore # {} /\ lastOp.id \notin lastOp.focusedBefore
  /\ Cardinality(Focused(windows)) = 1

\* ------------------------------------------------------------------- C2
\* C2: the registry never holds two records with the same id.
IdUnique ==
  \A i, j \in 1..Len(windows) : windows[i].id = windows[j].id => i = j

\* openWindow was called again for an id whose record is open, not minimized
IdUniqueWitness ==
  /\ lastOp.op = "open" /\ lastOp.present /\ ~lastOp.wasMinimized
  /\ Len(windows) = 2
  /\ Cardinality(WithId(windows, lastOp.id)) = 1

\* ------------------------------------------------------------------- C3
\* C3: no record is minimized and focused at once.
MinimizedImpliesUnfocused ==
  \A i \in 1..Len(windows) : ~(windows[i].isMinimized /\ windows[i].isFocused)

\* ------------------------------------------------------------------- C4
IssuedIncreasing ==
  \A i, j \in 1..Len(issued) : i < j => issued[i] < issued[j]

ZIndexStep ==
  /\ \A i \in 1..Len(windows), j \in 1..Len(windows') :
       windows[i].id = windows'[j].id => windows'[j].zIndex >= windows[i].zIndex
  /\ lastOp'.op \in FocusAffecting =>
       /\ Len(issued') = Len(issued) + 1
       /\ \A k \in 1..Len(issued) : issued[k] < issued'[Len(issued')]
       /\ \A i \in 1..Len(windows) : windows[i].zIndex < issued'[Len(issued')]
       /\ \A j \in WithId(windows', lastOp'.id) :
            windows'[j].zIndex = issued'[Len(issued')]
  /\ lastOp'.op \notin FocusAffecting => issued' = issued

\* C4: every focus-affecting call issues a zIndex strictly greater than all
\* issued before it (so none is issued twice, closed records included), the
\* affected record gets it, and no record's zIndex ever decreases.
ZOrderMonotone == []IssuedIncreasing /\ [][ZIndexStep]_vars

\* three values issued; the one record in the registry was opened after the
\* earlier holders were closed and holds the newest value
ZOrderMonotoneWitness ==
  /\ Len(issued) = 3
  /\ lastOp.op = "open" /\ ~lastOp.present
  /\ Len(windows) = 1
  /\ windows[1].zIndex = issued[3]

\* ------------------------------------------------------------------- C5
\* C5: right after openWindow(d), or restoreWindow(id) / focusWindow(id) of
\* a present id, the affected record's zIndex is strictly greater than that
\* of every other record.
TopOfStack ==
  Targeted =>
    \E i \in WithId(windows, lastOp.id) :
      \A j \in 1..Len(windows) : j # i => windows[j].zIndex < windows[i].zIndex

\* a record that was not the last one raised is brought to the front
TopOfStackWitness ==
  /\ lastOp.op = "restore" /\ lastOp.present
  /\ Len(windows) = 2
  /\ \E j \in Others(windows, lastOp.id) : windows[j].zIndex = topZIndex - 1

\* ------------------------------------------------------------------- C6
\* C6: right after openWindow(d), or restoreWindow(id) / focusWindow(id) of
\* a present id, exactly one record is focused and it is the affected one:
\* the one windows transition both sets and clears the flags.
FocusTransfer ==
  Targeted =>
    /\ Cardinality(Focused(windows)) = 1
    /\ Focused(windows) = WithId(windows, lastOp.id)

\* openWindow of a new id took the focus from the record that had it
FocusTransferWitness ==
  /\ lastOp.op = "open" /\ ~lastOp.present
  /\ lastOp.focusedBefore # {}
  /\ Len(windows) = 2
  /\ windows[2].isFocused /\ ~windows[1].isFocused

\* ------------------------------------------------------------------- C7
\* C7: restoreWindow(id) and focusWindow(id) of an absent id leave every
\* record as it was.
AbsentRestoreFocusNoOp ==
  [][(lastOp'.op \in {"restore", "focus"} /\ ~lastOp'.present)
       => windows' = windows]_vars

\* ------------------------------------------------------------------- C8
\* C8: closeWindow, minimizeWindow, maximizeWindow, updateWindowPosition and
\* updateWindowSize of an absent id leave windows and topZIndex as they were.
AbsentNoOp ==
  [][(/\ lastOp'.op \in {"close", "minimize", "maximize", "position", "size"}
      /\ ~lastOp'.present)
       => windows' = windows /\ topZIndex' = topZIndex]_vars

\* a call for an absent id made while another record is open and focused
AbsentNoOpWitness ==
  /\ lastOp.op \in {"close", "minimize", "maximize", "position", "size"}
  /\ ~lastOp.present
  /\ Len(windows) = 1
  /\ windows[1].isFocused
  /\ lastOp.focusedBefore = {windows[1].id}

\* ------------------------------------------------------------------- C9
\* C9: openWindow for an id whose record is minimized leaves exactly one
\* record with that id, not minimized, focused, holding the new top zIndex,
\* and every other record unfocused.
OpenRestoresMinimized ==
  (lastOp.op = "open" /\ lastOp.wasMinimized) =>
    /\ Cardinality(WithId(windows, lastOp.id)) = 1
    /\ \A i \in WithId(windows, lastOp.id) :
         /\ ~windows[i].isMinimized
         /\ windows[i].isFocused
         /\ windows[i].zIndex = topZIndex
         /\ windows[i].zIndex = issued[Len(issued)]
         /\ \A j \in Others(windows, lastOp.id) :
              windows[j].zIndex < windows[i].zIndex
    /\ \A j \in Others(windows, lastOp.id) : ~windows[j].isFocused

\* a minimized record reopened while another record is in the registry
OpenRestoresMinimizedWitness ==
  /\ lastOp.op = "open" /\ lastOp.wasMinimized
  /\ Len(windows) = 2
  /\ \A i \in WithId(windows, lastOp.id) : ~windows[i].isMinimized

\* ------------------------------------------------------------------ C10
\* C10: openWindow for an id that has a record adds no record and keeps the
\* record's title, x, y, width, height and isMaximized whatever the
\* descriptor says; only zIndex and isFocused change, and isMinimized when
\* the record was minimized.
OpenKeepsRecord ==
  [][(lastOp'.op = "open" /\ lastOp'.present) =>
       /\ Len(windows') = Len(windows)
       /\ \A i \in 1..Len(windows) :
            /\ windows'[i] = [windows[i] EXCEPT
                                !.zIndex = windows'[i].zIndex,
                                !.isFocused = windows'[i].isFocused,
                                !.isMinimized = windows'[i].isMinimized]
            /\ windows'[i].isMinimized # windows[i].isMinimized =>
                 windows[i].id = lastOp'.id /\ lastOp'.wasMinimized
            /\ windows'[i].zIndex # windows[i].zIndex =>
                 windows[i].id = lastOp'.id]_vars

\* the descriptor of the second openWindow differs from the open record in
\* title, geometry and isMaximized, and the record kept its own values
OpenKeepsRecordWitness ==
  /\ lastOp.op = "open" /\ lastOp.present
  /\ \E i \in WithId(windows, lastOp.id) :
       /\ windows[i].title # lastOp.window.title
       /\ windows[i].x # lastOp.window.x
       /\ windows[i].width # lastOp.window.width
       /\ windows[i].isMaximized # lastOp.window.isMaximized

\* ------------------------------------------------------------------ C11
\* the index a record of ws has once the records with this id are removed
Shifted(ws, id, i) == i - Cardinality({k \in WithId(ws, id) : k < i})

\* C11: closeWindow(id) removes the record with that id and nothing else:
\* the remaining records keep their order and every field, no record gains
\* focus (none is focused if the closed one was), topZIndex stays.
CloseRemovesOnly ==
  [][lastOp'.op = "close" =>
       /\ WithId(windows', lastOp'.id) = {}
       /\ Len(windows') = Len(windows) - Cardinality(WithId(windows, lastOp'.id))
       /\ \A i \in Others(windows, lastOp'.id) :
            windows'[Shifted(windows, lastOp'.id, i)] = windows[i]
       /\ lastOp'.id \in lastOp'.focusedBefore => Focused(windows') = {}
       /\ topZIndex' = topZIndex]_vars

\* the focused record was closed while another record stays open: nothing
\* is focused now
CloseRemovesOnlyWitness ==
  /\ lastOp.op = "close" /\ lastOp.present
  /\ lastOp.id \in lastOp.focusedBefore
  /\ Len(windows) = 1
  /\ Focused(windows) = {}

\* ------------------------------------------------------------------ C12
\* C12: minimizeWindow(id) of a present id sets isMinimized and clears
\* isFocused on that record, keeping it in place with its zIndex and
\* geometry; every other record and topZIndex are unchanged.
MinimizeOnlyTarget ==
  [][(lastOp'.op = "minimize" /\ lastOp'.present) =>
       /\ Len(windows') = Len(windows)
       /\ \A i \in 1..Len(windows) :
            windows'[i] = IF windows[i].id = lastOp'.id
                            THEN [windows[i] EXCEPT !.isMinimized = TRUE,
                                                    !.isFocused = FALSE]
                            ELSE windows[i]
       /\ topZIndex' = topZIndex]_vars

\* the focused record was minimized
MinimizeOnlyTargetWitness ==
  /\ lastOp.op = "minimize" /\ lastOp.present
  /\ lastOp.focusedBefore = {lastOp.id}
  /\ Len(windows) = 2
  /\ \A i \in WithId(windows, lastOp.id) :
       windows[i].isMinimized /\ ~windows[i].isFocused

\* ------------------------------------------------------------------ C13
\* C13: restoreWindow(id) of a present id, minimized or not, leaves that
\* record not minimized, focused and holding a new top zIndex, clears the
\* focus of all others and changes nothing else.
RestoreRaises ==
  [][(lastOp'.op = "restore" /\ lastOp'.present) =>
       /\ Len(windows') = Len(windows)
       /\ \A i \in 1..Len(windows) : windows[i].zIndex < topZIndex'
       /\ \A i \in 1..Len(windows) :
            windows'[i] = IF windows[i].id = lastOp'.id
                            THEN [windows[i] EXCEPT !.isMinimized = FALSE,
                                                    !.isFocused = TRUE,
                                                    !.zIndex = topZIndex']
                            ELSE [windows[i] EXCEPT !.isFocused = FALSE]]_vars

\* a record that was not minimized was restored and took the focus from
\* the other record
RestoreRaisesWitness ==
  /\ lastOp.op = "restore" /\ lastOp.present /\ ~lastOp.wasMinimized
  /\ lastOp.focusedBefore # {} /\ lastOp.id \notin lastOp.focusedBefore
  /\ Len(windows) = 2

\* ------------------------------------------------------------------ C14
\* C14: focusWindow(id) of a present id changes zIndex and isFocused only;
\* isMinimized, isMaximized, geometry and the set of records stay.
FocusChangesOnlyZAndFocus ==
  [][(lastOp'.op = "focus" /\ lastOp'.present) =>
       /\ Len(windows') = Len(windows)
       /\ \A i \in 1..Len(windows) :
            windows'[i] = [windows[i] EXCEPT
                             !.zIndex = windows'[i].zIndex,
                             !.isFocused = windows'[i].isFocused]]_vars

\* a minimized record was given the focus and is still minimized
FocusChangesOnlyZAndFocusWitness ==
  /\ lastOp.op = "focus" /\ lastOp.present /\ lastOp.wasMinimized
  /\ \A i \in WithId(windows, lastOp.id) :
       windows[i].isMinimized /\ windows[i].zIndex = topZIndex

\* ------------------------------------------------------------------ C15
\* C15: maximizeWindow(id) of a present id flips isMaximized of that record
\* and changes nothing else, minimized or not.
MaximizeToggles ==
  [][(lastOp'.op = "maximize" /\ lastOp'.present) =>
       /\ Len(windows') = Len(windows)
       /\ \A i \in 1..Len(windows) :
            windows'[i] = IF windows[i].id = lastOp'.id
                            THEN [windows[i] EXCEPT
                                    !.isMaximized = ~windows[i].isMaximized]
                            ELSE windows[i]
       /\ topZIndex' = topZIndex]_vars

\* a minimized, maximized record was toggled back to not maximized
MaximizeTogglesWitness ==
  /\ lastOp.op = "maximize" /\ lastOp.present /\ lastOp.wasMinimized
  /\ Len(windows) = 2
  /\ \A i \in WithId(windows, lastOp.id) :
       windows[i].isMinimized /\ ~windows[i].isMaximized

\* ------------------------------------------------------------------ C16
\* C16: updateWindowPosition writes x and y of the matching record only,
\* updateWindowSize its width and height only; all other fields, all other
\* records and topZIndex stay.
GeometryOnly ==
  [][/\ lastOp'.op = "position" =>
          /\ Len(windows') = Len(windows)
          /\ \A i \in 1..Len(windows) :
               windows'[i] = IF windows[i].id = lastOp'.id
                               THEN [windows[i] EXCEPT !.x = lastOp'.window.x,
                                                       !.y = lastOp'.window.y]
                               ELSE windows[i]
          /\ topZIndex' = topZIndex
     /\ lastOp'.op = "size" =>
          /\ Len(windows') = Len(windows)
          /\ \A i \in 1..Len(windows) :
               windows'[i] = IF windows[i].id = lastOp'.id
                               THEN [windows[i] EXCEPT
                                       !.width = lastOp'.window.width,
                                       !.height = lastOp'.window.height]
                               ELSE windows[i]
          /\ topZIndex' = topZIndex]_vars

\* the record in the back, unfocused, was moved to (50, 80) at its opening
\* size while the other record is still at (0, 0)
GeometryOnlyWitness ==
  /\ lastOp.op = "position" /\ lastOp.present
  /\ lastOp.window.x = 50 /\ lastOp.window.y = 80
  /\ lastOp.focusedBefore # {} /\ lastOp.id \notin lastOp.focusedBefore
  /\ Len(windows) = 2
  /\ \A i \in WithId(windows, lastOp.id) :
       /\ windows[i].x = 50 /\ windows[i].y = 80
       /\ windows[i].width = 400 /\ windows[i].height = 300
       /\ ~windows[i].isFocused
  /\ \A j \in Others(windows, lastOp.id) : windows[j].x = 0 /\ windows[j].y = 0

\* ------------------------------------------------------------------ C17
ZCounter ==
  /\ topZIndex = 100 + Len(issued)
  /\ \A k \in 1..Len(issued) : issued[k] = 100 + k

ZAllocStep ==
  /\ lastOp'.op \in FocusAffecting =>
       /\ topZIndex' = topZIndex + 1
       /\ issued' = Append(issued, topZIndex')
       /\ \A j \in WithId(windows', lastOp'.id) : windows'[j].zIndex = topZIndex'
       /\ \A i \in Others(windows, lastOp'.id), j \in 1..Len(windows') :
            windows'[j].id = windows[i].id => windows'[j].zIndex = windows[i].zIndex
  /\ lastOp'.op \notin FocusAffecting => topZIndex' = topZIndex

\* C17: topZIndex starts at 100, every openWindow, restoreWindow and
\* focusWindow call adds exactly 1 and gives the new value to the affected
\* record only, no other call changes it: the k-th such call issues 100 + k.
ZAllocation == []ZCounter /\ [][ZAllocStep]_vars

\* open a, open b, focus a: a holds 103 and the focus, b holds 102
ZAllocationWitness ==
  /\ lastOp.op = "focus" /\ lastOp.id = "a"
  /\ issued = <<101, 102, 103>>
  /\ Len(windows) = 2
  /\ windows[1].id = "a" /\ windows[1].zIndex = 103 /\ windows[1].isFocused
  /\ windows[2].id = "b" /\ windows[2].zIndex = 102 /\ ~windows[2].isFocused

\* ------------------------------------------------------------------ C18
\* C18: no two records have the same zIndex, and the record with the
\* greatest zIndex is the one openWindow, restoreWindow or focusWindow
\* targeted last among the records in the registry.
StrictStacking ==
  /\ \A i, j \in 1..Len(windows) :
       windows[i].zIndex = windows[j].zIndex => i = j
  /\ Len(recent) = Len(windows)
  /\ \A i, j \in 1..Len(windows) :
       (windows[i].id = recent[Len(recent)] /\ j # i) =>
         windows[j].zIndex < windows[i].zIndex

\* the record opened first was restored last: the top of the stack is the
\* first element of windows
StrictStackingWitness ==
  /\ lastOp.op = "restore" /\ lastOp.present
  /\ Len(windows) = 2
  /\ recent = <<windows[2].id, windows[1].id>>
  /\ windows[1].zIndex > windows[2].zIndex

\* ------------------------------------------------------------------ C19
\* C19: once the calls made have been rendered, the committed state is what
\* applying the calls one at a time in the order of invocation gives.
InvocationOrder ==
  Idle => windows = seqWindows /\ topZIndex = seqTopZ

\* ------------------------------------------------------------------ C20
\* C20: a click arriving while the timer of a first click is pending calls
\* onDoubleClick once and onSelect once, cancels that timer, so that its
\* callback does not run, and resets the click counter to 0.
DoubleClickStep ==
  (clicks' = clicks + 1 /\ clickCount = 1 /\ clickTimeout \in timers) =>
    /\ doubleClicks' = doubleClicks + 1
    /\ selects' = selects + 1
    /\ clickTimeout \notin timers'
    /\ timers' = {}
    /\ clickCount' = 0

DoubleClickOnce == [][DoubleClickStep]_vars

\* two clicks, the second before the first one's timer ran
DoubleClickOnceWitness ==
  /\ clicks = 2
  /\ doubleClicks = 1
  /\ selects = 1
  /\ clickCount = 0
  /\ timers = {}
  /\ clickTimeout = 1

\* ------------------------------------------------------------------ C21
\* a timer ran in this step
TimerRan == clicks' = clicks /\ timers' # timers

SingleClickStep ==
  /\ (clicks' = clicks + 1 /\ clickCount = 0) =>
       /\ selects' = selects /\ doubleClicks' = doubleClicks
       /\ clickCount' = 1
  /\ (TimerRan /\ clickCount = 1) =>
       /\ selects' = selects + 1
       /\ doubleClicks' = doubleClicks
       /\ clickCount' = 0
       /\ timers' = {}
  /\ doubleClicks' # doubleClicks =>
       /\ clicks' = clicks + 1
       /\ clickCount = 1
       /\ clickTimeout \in timers

\* C21: a click whose timer runs before a second click calls onSelect once,
\* when the timer runs and not before, and never onDoubleClick; the counter
\* is back at 0. onDoubleClick is called only by a click that arrives while
\* the timer of a first click is pending.
SingleClickSelects == [][SingleClickStep]_vars

\* one click, its timer has run: one onSelect, no onDoubleClick, idle again
SingleClickSelectsWitness ==
  /\ clicks = 1
  /\ selects = 1
  /\ doubleClicks = 0
  /\ clickCount = 0
  /\ timers = {}

\* ------------------------------------------------------------------ C25
\* C25: between events the click counter is 0 or 1, a timer is pending
\* exactly when it is 1, and at most one timer is pending, the one
\* clickTimeoutRef names.
DebouncerInvariant ==
  /\ clickCount \in {0, 1}
  /\ (timers # {}) <=> (clickCount = 1)
  /\ Cardinality(timers) <= 1
  /\ timers \subseteq {clickTimeout}

\* a first click pending after a double click and a single click were
\* handled
DebouncerInvariantWitness ==
  /\ clicks = 4
  /\ doubleClicks = 1
  /\ selects = 2
  /\ clickCount = 1
  /\ timers = {4}

\* ------------------------------------------------------------------ C23
HighWater ==
  /\ topZIndex >= 100
  /\ \A i \in 1..Len(windows) : windows[i].zIndex <= topZIndex

\* C23: topZIndex is at least 100 and at least every record's zIndex, and
\* it never decreases, also not when the top record is closed.
HighWaterMark == []HighWater /\ [][topZIndex' >= topZIndex]_vars

\* the top record was closed: the counter is above every record left
HighWaterMarkWitness ==
  /\ lastOp.op = "close" /\ lastOp.present
  /\ Len(windows) = 1
  /\ topZIndex = 102
  /\ windows[1].zIndex = 101

\* ------------------------------------------------------------------ C24
\* the windows update of the call just made, with the newZ it was given
LastUpdate ==
  Update(lastOp.op, lastOp.id, lastOp.window, topZIndex, TRUE)

\* C24: applying the windows update of an openWindow, restoreWindow or
\* focusWindow call a second time with the same newZ changes nothing.
ReapplicationHarmless ==
  lastOp.op \in FocusAffecting => ApplyUpdate(windows, LastUpdate) = windows

\* ------------------------------------------------------------------ C22
\* C22: useWindowManager called where no provider supplies the context
\* throws and returns no controller; called inside a provider it does not
\* throw and returns the provider's value.
HookFailsLoudly ==
  hookResult.called =>
    /\ hookResult.context = NoContext =>
         hookResult.result.threw /\ hookResult.result.value = NoValue
    /\ hookResult.context # NoContext =>
         ~hookResult.result.threw /\ hookResult.result.value = hookResult.context

\* the hook was called outside a provider while the provider has a window
HookFailsLoudlyWitness ==
  /\ hookResult.called
  /\ hookResult.context = NoContext
  /\ hookResult.result.threw
  /\ Len(windows) = 1

\* ------------------------------------------------------------------ C26
\* the hour of the day a time such as 8am or 2pm names
HourOfDay(t) ==
  LET n == ParseInt(StripNonDigits(t))
  IN IF Includes(t, <<"p", "m">>) THEN (n % 12) + 12 ELSE n % 12

\* the entry names this weekday and the hour lies in its range, the start
\* included and the end not
InCleaningRange(s, time) ==
  /\ \E k \in 1..Len(Split(s.day, "/")) :
       Split(s.day, "/")[k] = WeekdayName(time.day)
  /\ time.hour >= HourOfDay(Split(s.time, "-")[1])
  /\ time.hour < HourOfDay(Split(s.time, "-")[2])

\* C26: the rule checkParkingRules sets is 'forbidden' exactly when an entry
\* of the district names the weekday and its time range holds the hour, and
\* 'allowed' otherwise.
ForbiddenInCleaningHours ==
  (parkingRule # NoRule /\ selectedDistrict \in Districts) =>
    /\ parkingRule.type \in {"forbidden", "allowed"}
    /\ parkingRule.type = "forbidden" <=>
         \E i \in 1..Len(ScheduleOf(selectedDistrict)) :
           InCleaningRange(ScheduleOf(selectedDistrict)[i], checkedAt)

\* ------------------------------------------------------------------ C27
\* how many entries of seq satisfy Test
CountOf(seq, Test(_)) == Cardinality({i \in 1..Len(seq) : Test(seq[i])})

IsDone(event) == event.type = "done"

IsSuccess(message) == message.type = "result" /\ message.subtype = "success"

\* C27: the response stream is closed exactly once, nothing is enqueued after
\* the close, the last event is [DONE] when the iteration ends normally and an
\* error event when the query throws; a done event is emitted only for a result
\* message of subtype success and comes before [DONE].
StreamTermination ==
  /\ closeCalls <= 1
  /\ streamPc # "iterating" => closeCalls = 1
  /\ ~enqueuedAfterClose
  /\ streamPc = "ended" => enqueued[Len(enqueued)] = DONE
  /\ streamPc = "threw" => enqueued[Len(enqueued)].type = "error"
  /\ CountOf(enqueued, IsDone) = CountOf(yielded, IsSuccess)
  /\ \A i, j \in 1..Len(enqueued) :
       (IsDone(enqueued[i]) /\ enqueued[j] = DONE) => i < j

\* the query threw after a result of subtype success and a tool use
StreamTerminationWitness ==
  /\ streamPc = "threw"
  /\ closeCalls = 1
  /\ CountOf(enqueued, IsDone) = 1
  /\ \E i \in 1..Len(enqueued) : enqueued[i].type = "tool_start"
  /\ enqueued[Len(enqueued)].type = "error"
====
